---------------------------- MODULE Spec2Model ----------------------------
(***************************************************************************)
(* LZW codec of dhdylanhuang/LZW_image_compression:                        *)
(*   encoder  src/lzw.c             (hash-indexed version, lines 112-368)  *)
(*   decoder  src/lzwDecompression.c (binary-safe version, lines 156-411)  *)
(*   header   src/unnamed/part_005  (INIT_DICT_SIZE, CODE_BITS,            *)
(*                                   MAX_DICT_SIZE)                        *)
(*                                                                         *)
(* One behaviour is: a build configuration and an input file are fixed,    *)
(* lzw_compress runs on the input, the artifact on disk may be damaged,    *)
(* and lzw_decompress runs on the artifact.  Each action is one stretch of *)
(* straight-line code or one loop iteration of the two functions.          *)
(* Further specifications run parts of the code on their own: SpecTwice    *)
(* (lzw_compress called twice in one process), SpecPack (bit writer and    *)
(* bit reader), SpecHash (the hash table) and SpecBoth (lzw_compress and   *)
(* its linear-scan predecessor of src/unnamed/part_004 on the same input). *)
(*                                                                         *)
(* The telemetry counters of lzw_compress (bytes_processed,                *)
(* total_bits_written, hash_collisions, kwkwk_count, peak_dict_size,       *)
(* clock) are only printed and are left out.                               *)
(***************************************************************************)
EXTENDS Integers, Sequences, FiniteSets, TLC

(***************************************************************************)
(* Program constants.                                                      *)
(***************************************************************************)
\* src/unnamed/part_005:4
INIT_DICT_SIZE == 256
\* src/unnamed/part_005:5
SHIPPED_CODE_BITS == 14
\* src/unnamed/part_005:6
SHIPPED_MAX_DICT_SIZE == 16384
\* src/lzw.c:6, a dictionary size below the 256 seeds (a misconfigured build)
SMALL_MAX_DICT_SIZE == 128
\* low 16 bits of the multiplier 2654435761 = 0x9E3779B1 of src/lzw.c:162.
\* ht_cap is a power of two of at most 2^16, so
\* (key * 2654435761) & (ht_cap - 1) = ((key % ht_cap) * (31153 % ht_cap)) % ht_cap
KNUTH_LOW16 == 31153

(***************************************************************************)
(* Bounds of the model.                                                    *)
(***************************************************************************)
\* longest input over Alphabet that is enumerated exhaustively
MaxLen == 6
\* code width of the scaled build, whose dictionary (2^NarrowCodeBits
\* entries) a bounded input can fill; the shipped relation
\* MAX_DICT_SIZE = 2^CODE_BITS is kept
NarrowCodeBits == 9
\* bytes of the long input that follow the point where the scaled
\* dictionary is full
FillerTail == 12
\* how many payload bytes at either end of the artifact may be overwritten
TamperWindow == 2
\* longest code sequence given to the bit packer on its own
PackLen == 4
\* capacity asked of ht_init when the hash table is exercised on its own
HashCap == 8

\* 'A' and 'B'
Alphabet == {65, 66}

Pow2(n) == 2 ^ n

\* the build configurations: <<CODE_BITS, MAX_DICT_SIZE>>
Builds ==
    { <<SHIPPED_CODE_BITS, SHIPPED_MAX_DICT_SIZE>>,
      <<NarrowCodeBits, Pow2(NarrowCodeBits)>>,
      <<SHIPPED_CODE_BITS, SMALL_MAX_DICT_SIZE>> }

(***************************************************************************)
(* Inputs.                                                                 *)
(***************************************************************************)
SeqsUpTo(S, n) == UNION { [1..k -> S] : k \in 0..n }

\* A long input in which every adjacent byte pair is new for as long as the
\* scaled dictionary has room: walks of 0..255 with odd strides 1, 3, 5, ...
\* followed by FillerTail bytes that repeat the start of the input.
FillerFill == Pow2(NarrowCodeBits) - INIT_DICT_SIZE + 1
FillerByte(j) == (((j % 256) * (2 * (j \div 256) + 1)) % 256)
Filler ==
    [i \in 1..(FillerFill + FillerTail) |->
        IF i <= FillerFill THEN FillerByte(i - 1)
                           ELSE FillerByte((i - FillerFill - 1) % 3)]

\* "ABABAB" and "ABABABA"
ABABAB == << 65, 66, 65, 66, 65, 66 >>
ABABABA == << 65, 66, 65, 66, 65, 66, 65 >>

Inputs == SeqsUpTo(Alphabet, MaxLen) \cup {ABABAB, ABABABA, Filler}

(***************************************************************************)
(* Fixed-width unsigned arithmetic.  The bit buffers hold fewer than       *)
(* 8 + CODE_BITS <= 22 significant bits, so a left shift never loses a     *)
(* bit; Shl32 still truncates to 32 bits.                                  *)
(***************************************************************************)
RECURSIVE BitOr(_, _)
BitOr(a, b) ==
    IF a = 0 THEN b
    ELSE IF b = 0 THEN a
    ELSE (IF a % 2 = 1 \/ b % 2 = 1 THEN 1 ELSE 0) + 2 * BitOr(a \div 2, b \div 2)

\* (uint32_t)x << n.  Every x of the model is below 2^31, so for n <= 1 no
\* bit of x reaches bit 32.
Shl32(x, n) == IF n <= 1 THEN x * Pow2(n) ELSE (x % Pow2(32 - n)) * Pow2(n)

\* int32 header as the four bytes fwrite/fread move (little-endian host)
Int32Bytes(v) ==
    << v % 256, (v \div 256) % 256, (v \div 65536) % 256, (v \div 16777216) % 256 >>
\* two's complement: the top byte carries the sign
BytesInt32(b) ==
    b[1] + 256 * b[2] + 65536 * b[3]
    + 16777216 * (IF b[4] >= 128 THEN b[4] - 256 ELSE b[4])


(***************************************************************************)
(* State.                                                                  *)
(***************************************************************************)
VARIABLES
    \* build configuration (compile-time macros; fixed along a behaviour)
    CODE_BITS, MAX_DICT_SIZE,
    \* files
    input_file,      \* bytes of the file lzw_compress reads
    artifact,        \* bytes of the compressed file
    output_file,     \* bytes lzw_decompress has written
    tampered,        \* how the artifact was damaged after lzw_compress wrote
                     \* it: "none", "truncate", "header" or "overwrite"
    \* lzw_compress
    enc_pc,          \* position in lzw_compress
    in_pos,          \* bytes of input_file consumed by fgetc
    dict,            \* EncEntry dict[0 .. dict_size-1]
    dict_size,
    curr_code,
    bw,              \* BitWriter: [buffer, bit_count]
    ht, ht_cap, ht_count,   \* the static hash table; ht holds the used slots
    enc_log,         \* per emitted code: [code, at, after] (the code, dict_size
                     \* when bw_write_code is called and at the end of the step)
    enc_io,          \* stdio use of lzw_compress so far: fopen and fgetc
                     \* calls, bytes passed to fwrite
    \* lzw_decompress
    dec_pc,          \* position in lzw_decompress
    dec_err,         \* which exit(1) ended lzw_decompress ("none" otherwise)
    rd_pos,          \* bytes of artifact consumed by fread/fgetc
    br,              \* BitReader: [buffer, bit_count]
    dictionary,      \* DictEntry dictionary[0 .. dec_dict_size-1] (the data)
    dec_dict_size,
    prev_code,
    dec_log,         \* per code read in the decoder: [code, at, after, kwkwk,
                     \* accepted]
    dec_io,          \* stdio use of lzw_decompress so far: fopen, fread and
                     \* fgetc calls, bytes passed to fwrite
    \* heap
    enc_heap,        \* buffers lzw_compress holds: a subset of {"dict", "ht"}
    dec_heap,        \* buffers lzw_decompress holds: [entries, seq_data], the
                     \* number of live dictionary[i].data and of live KwKwK
                     \* temporaries
    \* a second call of lzw_compress in the same process
    run,             \* 1 or 2: which call of lzw_compress this is
    first_artifact,  \* what the first call wrote (<< >> during the first call)
    \* the bit packer and unpacker on their own
    pk_codes,        \* the codes c_0 .. c_{n-1} to pack
    pk_next,         \* index in pk_codes of the next code to write
    pk_bw,           \* the BitWriter
    pk_bytes,        \* the bytes the BitWriter passed to fwrite
    pk_done,         \* bw_flush has been called
    pk_br,           \* the BitReader over pk_bytes
    pk_pos,          \* bytes of pk_bytes consumed by fgetc
    pk_read,         \* the codes br_read_code returned so far
    \* the hash table on its own
    ht_calls,        \* the ht_insert calls made: [prefix, append, code]
    \* the earlier linear-scan lzw_compress (src/unnamed/part_004)
    scan_pc,         \* position in that lzw_compress
    scan_in_pos,     \* bytes of input_file it has consumed
    scan_dictionary, \* DictEntry dictionary[0 .. scan_dict_size-1] (the data)
    scan_dict_size,
    scan_curr_code,
    scan_out         \* the ints it passed to fwrite: the header, then the codes

build_vars == << CODE_BITS, MAX_DICT_SIZE >>
enc_vars == << enc_pc, in_pos, dict, dict_size, curr_code, bw, ht, ht_cap,
               ht_count, enc_log, enc_io, enc_heap >>
dec_vars == << dec_pc, dec_err, rd_pos, br, dictionary, dec_dict_size,
               prev_code, dec_log, dec_io, output_file, dec_heap >>
twice_vars == << run, first_artifact >>
pack_vars == << pk_codes, pk_next, pk_bw, pk_bytes, pk_done, pk_br, pk_pos,
                pk_read >>
hash_vars == << ht_calls >>
scan_vars == << scan_pc, scan_in_pos, scan_dictionary, scan_dict_size,
                scan_curr_code, scan_out >>
\* the parts of the codec exercised on their own, and the earlier encoder
aside_vars == << pack_vars, hash_vars, scan_vars >>
\* what the two calls of one compress/decompress pair never touch
other_vars == << twice_vars, aside_vars >>
vars == << CODE_BITS, MAX_DICT_SIZE, input_file, artifact, output_file,
           tampered, enc_pc, in_pos, dict, dict_size, curr_code, bw, ht,
           ht_cap, ht_count, enc_log, enc_io, dec_pc, dec_err, rd_pos, br,
           dictionary, dec_dict_size, prev_code, dec_log, dec_io,
           enc_heap, dec_heap, other_vars >>

\* a function with no elements: an array or table with nothing in it
Empty == [i \in {} |-> 0]

(***************************************************************************)
(* Hash table (src/lzw.c:143-185).  A slot with code = -1 is a slot that   *)
(* is not in DOMAIN of the table h.                                        *)
(***************************************************************************)
\* mutant of mk_key: the prefix is not shifted clear of the byte
mk_key_noshift(prefix, append) == BitOr(prefix, append)

mk_key(prefix, append) == BitOr(Shl32(prefix, 8), append)

RECURSIVE RoundUpPow2(_, _)
\* mutant of RoundUpPow2: the doubling stops one step early
RoundUpPow2_early(cap, capacity) ==
    IF 2 * cap < capacity THEN RoundUpPow2(2 * cap, capacity) ELSE cap

RoundUpPow2(cap, capacity) ==
    IF cap < capacity THEN RoundUpPow2(2 * cap, capacity) ELSE cap

\* mutant of ht_init: the slots are not cleared and ht_count is not reset,
\* so the table keeps what an earlier call left in it
ht_init_keep(capacity) ==
    [ht |-> ht, ht_cap |-> RoundUpPow2(1, capacity), ht_count |-> ht_count]

ht_init(capacity) ==
    [ht |-> Empty, ht_cap |-> RoundUpPow2(1, capacity), ht_count |-> 0]

ht_probe_start(key, cap) == ((key % cap) * (KNUTH_LOW16 % cap)) % cap

RECURSIVE ht_find_from(_, _, _, _)
\* mutant of ht_find_from: only the first slot of the probe sequence is read
ht_find_from_first(h, cap, key, i) ==
    IF i \notin DOMAIN h THEN -1
    ELSE IF h[i].key = key THEN h[i].code
    ELSE -1

ht_find_from(h, cap, key, i) ==
    IF i \notin DOMAIN h THEN -1
    ELSE IF h[i].key = key THEN h[i].code
    ELSE ht_find_from(h, cap, key, (i + 1) % cap)

\* mutant of ht_find: every lookup misses
ht_find_blind(h, cap, key) == -1

ht_find(h, cap, key) == ht_find_from(h, cap, key, ht_probe_start(key, cap))

RECURSIVE ht_free_slot(_, _, _)
ht_free_slot(h, cap, i) ==
    IF i \notin DOMAIN h THEN i ELSE ht_free_slot(h, cap, (i + 1) % cap)

\* mutant of ht_insert: the slot records the code after the one given
ht_insert_next(h, cap, key, code) ==
    LET i == ht_free_slot(h, cap, ht_probe_start(key, cap))
    IN  [j \in DOMAIN h \cup {i} |->
            IF j = i THEN [key |-> key, code |-> code + 1] ELSE h[j]]

\* the table after ht_insert(key, code)
ht_insert(h, cap, key, code) ==
    LET i == ht_free_slot(h, cap, ht_probe_start(key, cap))
    IN  [j \in DOMAIN h \cup {i} |->
            IF j = i THEN [key |-> key, code |-> code] ELSE h[j]]

(***************************************************************************)
(* Bit writer (src/lzw.c:190-227).  Both operators return the writer and   *)
(* the bytes they passed to fwrite.                                        *)
(***************************************************************************)
bw_init == [buffer |-> 0, bit_count |-> 0]

RECURSIVE bw_drain(_, _)
bw_drain(w, out) ==
    IF w.bit_count >= 8
    THEN bw_drain([buffer |-> w.buffer \div 256, bit_count |-> w.bit_count - 8],
                  Append(out, w.buffer % 256))
    ELSE [bw |-> w, out |-> out]

\* mutant of bw_write_code: the code is not shifted to the write position
bw_write_code_unshifted(w, code, bits) ==
    bw_drain([buffer    |-> BitOr(w.buffer, code % Pow2(bits)),
              bit_count |-> w.bit_count + bits],
             << >>)

bw_write_code(w, code, bits) ==
    bw_drain([buffer    |-> BitOr(w.buffer, Shl32(code % Pow2(bits), w.bit_count)),
              bit_count |-> w.bit_count + bits],
             << >>)

\* mutant of bw_flush: a byte is written even when nothing is buffered
bw_flush_always(w) ==
    [bw |-> [buffer |-> 0, bit_count |-> 0], out |-> << w.buffer % 256 >>]

bw_flush(w) ==
    IF w.bit_count > 0
    THEN [bw |-> [buffer |-> 0, bit_count |-> 0], out |-> << w.buffer % 256 >>]
    ELSE [bw |-> w, out |-> << >>]

(***************************************************************************)
(* lzw_compress (src/lzw.c:232-367).  fopen, fwrite and malloc are taken   *)
(* to succeed: an I/O failure or an exhausted heap is a fault of the       *)
(* environment, outside the codec's logic.  free(dict) and free(ht)      *)
(* release the storage; dict and ht keep their last contents as a record   *)
(* of the call, and no action reads them afterwards.                       *)
(***************************************************************************)
\* lines 235-242: both files are opened; "wb" truncates the output file
lzw_compress_open ==
    /\ enc_pc = "start"
    /\ enc_pc' = "opened"
    /\ artifact' = << >>
    /\ enc_io' = [enc_io EXCEPT !.fopen = @ + 2]
    /\ UNCHANGED << build_vars, other_vars, input_file, tampered, in_pos, dict,
                    dict_size, curr_code, bw, ht, ht_cap, ht_count, enc_log,
                    enc_heap, dec_vars >>

\* lines 244-250: the header, int init_dict_size = INIT_DICT_SIZE
lzw_compress_header ==
    /\ enc_pc = "opened"
    /\ enc_pc' = "header"
    /\ artifact' = artifact \o Int32Bytes(INIT_DICT_SIZE)
    /\ enc_io' = [enc_io EXCEPT !.fwrite = @ + 4]
    /\ UNCHANGED << build_vars, other_vars, input_file, tampered, in_pos, dict,
                    dict_size, curr_code, bw, ht, ht_cap, ht_count, enc_log,
                    enc_heap, dec_vars >>

\* lines 263-268: the seeded dictionary
SeedDict == [i \in 0..(INIT_DICT_SIZE - 1) |-> [prefix |-> -1, append |-> i % 256, len |-> 1]]

\* lines 252-280: allocate dict, check the configuration (its failure frees
\* dict), seed, ht_init (which allocates ht), bw_init
lzw_compress_seed ==
    /\ enc_pc = "header"
    /\ IF MAX_DICT_SIZE < INIT_DICT_SIZE
       THEN /\ enc_pc' = "exited"
            /\ enc_heap' = (enc_heap \cup {"dict"}) \ {"dict"}
            /\ UNCHANGED << dict, dict_size, ht, ht_cap, ht_count, bw >>
       ELSE /\ enc_pc' = "seeded"
            /\ enc_heap' = enc_heap \cup {"dict", "ht"}
            /\ dict' = SeedDict
            /\ dict_size' = INIT_DICT_SIZE
            /\ LET t == ht_init(MAX_DICT_SIZE * 2)
               IN  /\ ht' = t.ht
                   /\ ht_cap' = t.ht_cap
                   /\ ht_count' = t.ht_count
            /\ bw' = bw_init
    /\ UNCHANGED << build_vars, other_vars, input_file, artifact, tampered, in_pos,
                    curr_code, enc_log, enc_io, dec_vars >>

\* lines 282-292: the first byte; an empty input ends the call here
lzw_compress_prime ==
    /\ enc_pc = "seeded"
    /\ IF in_pos = Len(input_file)
       THEN LET f == bw_flush(bw)
            IN  /\ bw' = f.bw
                /\ artifact' = artifact \o f.out
                /\ enc_io' = [enc_io EXCEPT !.fgetc = @ + 1, !.fwrite = @ + Len(f.out)]
                /\ enc_pc' = "returned"
                /\ enc_heap' = enc_heap \ {"dict", "ht"}
                /\ UNCHANGED << in_pos, curr_code, dict, ht >>
       ELSE /\ curr_code' = input_file[in_pos + 1] % 256
            /\ in_pos' = in_pos + 1
            /\ enc_io' = [enc_io EXCEPT !.fgetc = @ + 1]
            /\ enc_pc' = "loop"
            /\ UNCHANGED << bw, artifact, dict, ht, enc_heap >>
    /\ UNCHANGED << build_vars, other_vars, input_file, tampered, dict_size, ht_cap,
                    ht_count, enc_log, dec_vars >>

\* mutant of enc_room: one entry too many
enc_room_late(size, max) == size <= max

\* line 319: room for one more entry
enc_room(size, max) == size < max

\* lines 296-337: one iteration of the main loop, on the next input byte k.
\* After the emission, lines 312 and 322 read dict[curr_code]; with curr_code
\* outside the entries that exist the read is of storage malloc left
\* uninitialized (enc_pc = "undefined").
lzw_compress_step ==
    /\ enc_pc = "loop"
    /\ in_pos < Len(input_file)
    /\ LET k     == input_file[in_pos + 1] % 256
           found == ht_find(ht, ht_cap, mk_key(curr_code, k))
       IN  IF found # -1
           THEN /\ curr_code' = found
                /\ UNCHANGED << bw, artifact, dict, dict_size, ht, ht_count,
                                enc_log, enc_pc >>
                /\ enc_io' = [enc_io EXCEPT !.fgetc = @ + 1]
           ELSE LET w    == bw_write_code(bw, curr_code, CODE_BITS)
                    room == enc_room(dict_size, MAX_DICT_SIZE)
                IN  /\ bw' = w.bw
                    /\ artifact' = artifact \o w.out
                    /\ enc_io' = [enc_io EXCEPT !.fgetc = @ + 1, !.fwrite = @ + Len(w.out)]
                    /\ IF curr_code \notin 0..(dict_size - 1)
                       THEN /\ enc_pc' = "undefined"
                            /\ enc_log' = Append(enc_log,
                                                 [code |-> curr_code, at |-> dict_size,
                                                  after |-> dict_size])
                            /\ UNCHANGED << dict, ht, ht_count, dict_size, curr_code >>
                       ELSE /\ IF room
                               THEN /\ dict' = [i \in 0..dict_size |->
                                                  IF i = dict_size
                                                  THEN [prefix |-> curr_code, append |-> k,
                                                        len |-> dict[curr_code].len + 1]
                                                  ELSE dict[i]]
                                    /\ ht' = ht_insert(ht, ht_cap, mk_key(curr_code, k),
                                                       dict_size)
                                    /\ ht_count' = ht_count + 1
                                    /\ dict_size' = dict_size + 1
                               ELSE UNCHANGED << dict, ht, ht_count, dict_size >>
                            /\ enc_log' = Append(enc_log,
                                                 [code |-> curr_code, at |-> dict_size,
                                                  after |-> IF room THEN dict_size + 1
                                                                    ELSE dict_size])
                            /\ curr_code' = k
                            /\ UNCHANGED enc_pc
    /\ in_pos' = in_pos + 1
    /\ UNCHANGED << build_vars, other_vars, input_file, tampered, ht_cap,
                    enc_heap, dec_vars >>

\* lines 296 (EOF) and 339-367: the final code, the flush, fclose, free(dict)
\* and free(ht)
lzw_compress_finish ==
    /\ enc_pc = "loop"
    /\ in_pos = Len(input_file)
    /\ LET w == bw_write_code(bw, curr_code, CODE_BITS)
           f == bw_flush(w.bw)
       IN  /\ bw' = f.bw
           /\ artifact' = artifact \o w.out \o f.out
           /\ enc_io' = [enc_io EXCEPT !.fgetc = @ + 1,
                                       !.fwrite = @ + Len(w.out) + Len(f.out)]
    /\ enc_log' = Append(enc_log, [code |-> curr_code, at |-> dict_size, after |-> dict_size])
    /\ enc_pc' = "returned"
    /\ enc_heap' = enc_heap \ {"dict", "ht"}
    /\ UNCHANGED << build_vars, other_vars, input_file, tampered, in_pos, dict,
                    dict_size, curr_code, ht, ht_cap, ht_count, dec_vars >>

\* lines 143-145 and 232: lzw_compress is called again in the same process,
\* on the same input and output paths.  The static ht, ht_cap and ht_count
\* are what the first call left (ht points at the table free(ht) released);
\* the locals of the new call hold nothing yet.
lzw_compress_again ==
    /\ enc_pc = "returned"
    /\ run = 1
    /\ dec_pc = "start"
    /\ tampered = "none"
    /\ run' = 2
    /\ first_artifact' = artifact
    /\ enc_pc' = "start"
    /\ in_pos' = 0
    /\ dict' = Empty
    /\ dict_size' = 0
    /\ curr_code' = -1
    /\ bw' = bw_init
    /\ enc_log' = << >>
    /\ enc_io' = [fopen |-> 0, fwrite |-> 0, fgetc |-> 0]
    /\ UNCHANGED << build_vars, aside_vars, input_file, artifact, tampered, ht,
                    ht_cap, ht_count, enc_heap, dec_vars >>

(***************************************************************************)
(* Bit reader (src/lzwDecompression.c:169-199).  br_read_code returns      *)
(*   status "code": a code was extracted (return 1),                       *)
(*   status "none": the source ended with nothing buffered (return 0),     *)
(*   status "exit": the source ended with bits buffered (exit(1)),         *)
(* with the reader, the file position and the number of fgetc calls.       *)
(***************************************************************************)
br_init == [buffer |-> 0, bit_count |-> 0]

\* mutant of br_at_eof: buffered bits are dropped silently at end of file
br_at_eof_lenient(bit_count) == "none"

\* lines 184-190: the source is exhausted with bit_count bits buffered
br_at_eof(bit_count) == IF bit_count = 0 THEN "none" ELSE "exit"

RECURSIVE br_read_from(_, _, _, _, _)
\* mutant of br_read_from: a byte read is not shifted above the buffered bits
br_read_from_unshifted(r, data, pos, bits, calls) ==
    IF r.bit_count < bits
    THEN IF pos >= Len(data)
         THEN [status |-> br_at_eof(r.bit_count),
               code |-> -1, br |-> r, pos |-> pos, calls |-> calls + 1]
         ELSE br_read_from([buffer    |-> BitOr(r.buffer, data[pos + 1] % 256),
                            bit_count |-> r.bit_count + 8],
                           data, pos + 1, bits, calls + 1)
    ELSE [status |-> "code",
          code   |-> r.buffer % Pow2(bits),
          br     |-> [buffer |-> r.buffer \div Pow2(bits), bit_count |-> r.bit_count - bits],
          pos    |-> pos,
          calls  |-> calls]

br_read_from(r, data, pos, bits, calls) ==
    IF r.bit_count < bits
    THEN IF pos >= Len(data)
         THEN [status |-> br_at_eof(r.bit_count),
               code |-> -1, br |-> r, pos |-> pos, calls |-> calls + 1]
         ELSE br_read_from([buffer    |-> BitOr(r.buffer,
                                                Shl32(data[pos + 1] % 256, r.bit_count)),
                            bit_count |-> r.bit_count + 8],
                           data, pos + 1, bits, calls + 1)
    ELSE [status |-> "code",
          code   |-> r.buffer % Pow2(bits),
          br     |-> [buffer |-> r.buffer \div Pow2(bits), bit_count |-> r.bit_count - bits],
          pos    |-> pos,
          calls  |-> calls]

br_read_code(r, data, pos, bits) == br_read_from(r, data, pos, bits, 0)

(***************************************************************************)
(* lzw_decompress (src/lzwDecompression.c:211-402).  As in lzw_compress,   *)
(* fopen, fwrite and malloc are taken to succeed.  dec_pc = "undefined"    *)
(* marks a read of dictionary[prev_code] outside the entries that exist    *)
(* (undefined behaviour in C); no behaviour of the model reaches it.       *)
(***************************************************************************)
\* line 229: the seed count the decoder expects, a literal
EXPECTED_INIT_DICT_SIZE == 256

\* lines 212-219: both files are opened; "wb" truncates the output file.
\* The call is made on whatever lzw_compress left on disk.
lzw_decompress_open ==
    /\ enc_pc \in {"returned", "exited"}
    /\ dec_pc = "start"
    /\ dec_pc' = "opened"
    /\ output_file' = << >>
    /\ dec_io' = [dec_io EXCEPT !.fopen = @ + 2]
    /\ UNCHANGED << build_vars, other_vars, input_file, artifact, tampered,
                    enc_vars, dec_err, rd_pos, br, dictionary, dec_dict_size,
                    prev_code, dec_log, dec_heap >>

\* mutant of header_ok: the header is read but not compared
header_ok_any(initial_dict_size) == TRUE

\* line 229
header_ok(initial_dict_size) == initial_dict_size = EXPECTED_INIT_DICT_SIZE

\* lines 221-235: read and validate the header
lzw_decompress_header ==
    /\ dec_pc = "opened"
    /\ IF Len(artifact) - rd_pos < 4
       THEN /\ dec_pc' = "exited"
            /\ dec_err' = "header_read"
            /\ rd_pos' = Len(artifact)
       ELSE /\ rd_pos' = rd_pos + 4
            /\ IF ~header_ok(BytesInt32(SubSeq(artifact, rd_pos + 1, rd_pos + 4)))
               THEN dec_pc' = "exited" /\ dec_err' = "header_value"
               ELSE dec_pc' = "header" /\ UNCHANGED dec_err
    /\ dec_io' = [dec_io EXCEPT !.fread = @ + 1]
    /\ UNCHANGED << build_vars, other_vars, input_file, artifact, tampered,
                    enc_vars, br, dictionary, dec_dict_size, prev_code, dec_log,
                    output_file, dec_heap >>

\* lines 248-261: the seeded dictionary
SeedDictionary == [i \in 0..(EXPECTED_INIT_DICT_SIZE - 1) |-> << i % 256 >>]

\* lines 201-208: free_dict releases the data of every entry
free_dict(heap) == [heap EXCEPT !.entries = 0]

\* lines 237-264: check the configuration, seed the dictionary (one malloc
\* per entry), br_init
lzw_decompress_seed ==
    /\ dec_pc = "header"
    /\ IF MAX_DICT_SIZE < EXPECTED_INIT_DICT_SIZE
       THEN /\ dec_pc' = "exited"
            /\ dec_err' = "config"
            /\ UNCHANGED << dictionary, dec_dict_size, br, dec_heap >>
       ELSE /\ dec_pc' = "seeded"
            /\ dictionary' = SeedDictionary
            /\ dec_dict_size' = EXPECTED_INIT_DICT_SIZE
            /\ dec_heap' = [dec_heap EXCEPT !.entries = @ + EXPECTED_INIT_DICT_SIZE]
            /\ br' = br_init
            /\ UNCHANGED dec_err
    /\ UNCHANGED << build_vars, other_vars, input_file, artifact, tampered, enc_vars,
                    rd_pos, prev_code, dec_log, dec_io, output_file >>

\* mutant of first_code_bad: the seed count itself passes as a first code
first_code_bad_late(code, size) == code < 0 \/ code > size

\* line 276
first_code_bad(code, size) == code < 0 \/ code >= size

\* lines 266-291: the first code
lzw_decompress_first ==
    /\ dec_pc = "seeded"
    /\ LET c == br_read_code(br, artifact, rd_pos, CODE_BITS)
       IN  /\ br' = c.br
           /\ rd_pos' = c.pos
           /\ CASE c.status = "none" ->
                     /\ dec_pc' = "returned"
                     /\ dec_heap' = free_dict(dec_heap)
                     /\ dec_io' = [dec_io EXCEPT !.fgetc = @ + c.calls]
                     /\ UNCHANGED << dec_err, prev_code, dec_log, output_file >>
                [] c.status = "exit" ->
                     \* exit(1) inside br_read_code: nothing is freed
                     /\ dec_pc' = "exited"
                     /\ dec_err' = "unexpected_end"
                     /\ dec_io' = [dec_io EXCEPT !.fgetc = @ + c.calls]
                     /\ UNCHANGED << prev_code, dec_log, output_file, dec_heap >>
                [] c.status = "code" /\ first_code_bad(c.code, dec_dict_size) ->
                     /\ dec_pc' = "exited"
                     /\ dec_err' = "first_code"
                     /\ dec_heap' = free_dict(dec_heap)
                     /\ prev_code' = c.code
                     /\ dec_io' = [dec_io EXCEPT !.fgetc = @ + c.calls]
                     /\ dec_log' = Append(dec_log,
                                          [code |-> c.code, at |-> dec_dict_size,
                                           after |-> dec_dict_size, kwkwk |-> FALSE,
                                           accepted |-> FALSE, wrote |-> 0])
                     /\ UNCHANGED output_file
                [] OTHER ->
                     /\ dec_pc' = "loop"
                     /\ prev_code' = c.code
                     /\ output_file' = output_file \o dictionary[c.code]
                     /\ dec_io' = [dec_io EXCEPT !.fgetc = @ + c.calls,
                                                 !.fwrite = @ + Len(dictionary[c.code])]
                     /\ dec_log' = Append(dec_log,
                                          [code |-> c.code, at |-> dec_dict_size,
                                           after |-> dec_dict_size, kwkwk |-> FALSE,
                                           accepted |-> TRUE,
                                           wrote |-> Len(dictionary[c.code])])
                     /\ UNCHANGED << dec_err, dec_heap >>
    /\ UNCHANGED << build_vars, other_vars, input_file, artifact, tampered, enc_vars,
                    dictionary, dec_dict_size >>

\* line 299: the code names an entry that exists
is_known(code, size) == code < size
\* mutant of is_kwkwk: every unknown code is rebuilt as if just created
is_kwkwk_lax(code, size) == code >= size

\* line 303: the code names the entry the encoder has just created
is_kwkwk(code, size) == code = size
\* line 305
kwkwk_prev_bad(prev, size) == prev < 0 \/ prev >= size
\* mutant of kwkwk_seq: the last byte of the previous sequence is repeated
kwkwk_seq_last(prev) == Append(prev, prev[Len(prev)])

\* lines 312-322: the KwKwK sequence, dict[prev] + first_byte(dict[prev])
kwkwk_seq(prev) == Append(prev, prev[1])

\* mutant of new_entry: the last byte of the current sequence is appended
new_entry_last(prev, seq) == Append(prev, seq[Len(seq)])

\* lines 355-370: the new entry, dict[prev] + first_byte(seq)
new_entry(prev, seq) == Append(prev, seq[1])

\* mutant of dec_room: the decoder stops growing one entry early
dec_room_early(size, max) == size + 1 < max

\* line 354: room for one more entry
dec_room(size, max) == size < max

\* lines 295-396: one iteration of the main decode loop whose br_read_code
\* yields a code or ends the process
lzw_decompress_step ==
    /\ dec_pc = "loop"
    /\ LET c  == br_read_code(br, artifact, rd_pos, CODE_BITS)
           at == dec_dict_size
       IN  /\ c.status # "none"
           /\ br' = c.br
           /\ rd_pos' = c.pos
           /\ CASE c.status = "exit" ->
                     \* exit(1) inside br_read_code: nothing is freed
                     /\ dec_pc' = "exited"
                     /\ dec_err' = "unexpected_end"
                     /\ dec_io' = [dec_io EXCEPT !.fgetc = @ + c.calls]
                     /\ UNCHANGED << dictionary, dec_dict_size, prev_code,
                                     dec_log, output_file, dec_heap >>
                [] c.status = "code" /\ ~is_known(c.code, at) /\ ~is_kwkwk(c.code, at) ->
                     \* lines 323-330
                     /\ dec_pc' = "exited"
                     /\ dec_err' = "invalid_code"
                     /\ dec_heap' = free_dict(dec_heap)
                     /\ dec_io' = [dec_io EXCEPT !.fgetc = @ + c.calls]
                     /\ dec_log' = Append(dec_log,
                                          [code |-> c.code, at |-> at, after |-> at,
                                           kwkwk |-> FALSE, accepted |-> FALSE,
                                           wrote |-> 0])
                     /\ UNCHANGED << dictionary, dec_dict_size, prev_code, output_file >>
                [] c.status = "code" /\ ~is_known(c.code, at) /\ is_kwkwk(c.code, at)
                                     /\ kwkwk_prev_bad(prev_code, at) ->
                     \* lines 305-311
                     /\ dec_pc' = "exited"
                     /\ dec_err' = "kwkwk_prev"
                     /\ dec_heap' = free_dict(dec_heap)
                     /\ dec_io' = [dec_io EXCEPT !.fgetc = @ + c.calls]
                     /\ dec_log' = Append(dec_log,
                                          [code |-> c.code, at |-> at, after |-> at,
                                           kwkwk |-> TRUE, accepted |-> FALSE,
                                           wrote |-> 0])
                     /\ UNCHANGED << dictionary, dec_dict_size, prev_code, output_file >>
                [] OTHER ->
                     \* seq_data is borrowed from the entry, or, in the
                     \* KwKwK case, a buffer from malloc (line 313) that no
                     \* later line frees
                     LET kwkwk    == ~is_known(c.code, at)
                         seq_data == IF kwkwk
                                     THEN kwkwk_seq(dictionary[prev_code])
                                     ELSE dictionary[c.code]
                         room     == dec_room(at, MAX_DICT_SIZE)
                     IN  /\ output_file' = output_file \o seq_data
                         /\ dec_heap' =
                               [entries  |-> dec_heap.entries
                                               + (IF room /\ prev_code \in 0..(at - 1)
                                                  THEN 1 ELSE 0),
                                seq_data |-> dec_heap.seq_data
                                               + (IF kwkwk THEN 1 ELSE 0)]
                         /\ dec_io' = [dec_io EXCEPT !.fgetc = @ + c.calls,
                                                     !.fwrite = @ + Len(seq_data)]
                         /\ IF room /\ ~(prev_code \in 0..(at - 1))
                            THEN \* line 359 would read dictionary[prev_code]
                                 \* outside the entries that exist
                                 /\ dec_pc' = "undefined"
                                 /\ UNCHANGED << dictionary, dec_dict_size, dec_err >>
                            ELSE /\ IF room
                                    THEN /\ dictionary' =
                                              [i \in 0..at |->
                                                 IF i = at
                                                 THEN new_entry(dictionary[prev_code],
                                                                seq_data)
                                                 ELSE dictionary[i]]
                                         /\ dec_dict_size' = at + 1
                                    ELSE UNCHANGED << dictionary, dec_dict_size >>
                                 /\ UNCHANGED << dec_pc, dec_err >>
                         /\ dec_log' = Append(dec_log,
                                              [code |-> c.code, at |-> at,
                                               after |-> IF room THEN at + 1 ELSE at,
                                               kwkwk |-> kwkwk, accepted |-> TRUE,
                                               wrote |-> Len(seq_data)])
                         /\ prev_code' = c.code
    /\ UNCHANGED << build_vars, other_vars, input_file, artifact, tampered, enc_vars >>

\* lines 295 (br_read_code returns 0) and 398-401: the loop ends, free_dict,
\* fclose, return
lzw_decompress_finish ==
    /\ dec_pc = "loop"
    /\ LET c == br_read_code(br, artifact, rd_pos, CODE_BITS)
       IN  /\ c.status = "none"
           /\ br' = c.br
           /\ rd_pos' = c.pos
           /\ dec_io' = [dec_io EXCEPT !.fgetc = @ + c.calls]
    /\ dec_pc' = "returned"
    /\ dec_heap' = free_dict(dec_heap)
    /\ UNCHANGED << build_vars, other_vars, input_file, artifact, tampered,
                    enc_vars, dec_err, dictionary, dec_dict_size, prev_code,
                    dec_log, output_file >>

(***************************************************************************)
(* Damage to the artifact between the two calls (the corrupted and         *)
(* truncated streams the decoder must reject).  At most one change.        *)
(***************************************************************************)
CanTamper == enc_pc = "returned" /\ dec_pc = "start" /\ tampered = "none"

\* the artifact loses its last n bytes
tamper_truncate ==
    /\ CanTamper
    /\ \E n \in 1..TamperWindow :
          /\ n <= Len(artifact)
          /\ artifact' = SubSeq(artifact, 1, Len(artifact) - n)
    /\ tampered' = "truncate"
    /\ UNCHANGED << build_vars, other_vars, input_file, enc_vars, dec_vars >>

\* the header carries another seed count
HeaderValues == {0, 255, 257, 65536}
tamper_header ==
    /\ CanTamper
    /\ \E v \in HeaderValues :
          artifact' = Int32Bytes(v) \o SubSeq(artifact, 5, Len(artifact))
    /\ tampered' = "header"
    /\ UNCHANGED << build_vars, other_vars, input_file, enc_vars, dec_vars >>

\* one payload byte near either end of the payload is overwritten
ByteValues == {0, 1, 255}
tamper_overwrite ==
    /\ CanTamper
    /\ \E p \in 5..Len(artifact), v \in ByteValues :
          /\ p <= 4 + TamperWindow \/ p > Len(artifact) - TamperWindow
          /\ artifact[p] # v
          /\ artifact' = [artifact EXCEPT ![p] = v]
    /\ tampered' = "overwrite"
    /\ UNCHANGED << build_vars, other_vars, input_file, enc_vars, dec_vars >>

(***************************************************************************)
(* The specification.                                                      *)
(***************************************************************************)
\* no call has been made yet
NoCallYet ==
    /\ artifact = << >>
    /\ output_file = << >>
    /\ tampered = "none"
    /\ enc_pc = "start"
    /\ in_pos = 0
    /\ dict = Empty
    /\ dict_size = 0
    /\ curr_code = -1
    /\ bw = bw_init
    /\ ht = Empty
    /\ ht_cap = 0
    /\ ht_count = 0
    /\ enc_log = << >>
    /\ enc_io = [fopen |-> 0, fwrite |-> 0, fgetc |-> 0]
    /\ dec_pc = "start"
    /\ dec_err = "none"
    /\ rd_pos = 0
    /\ br = br_init
    /\ dictionary = Empty
    /\ dec_dict_size = 0
    /\ prev_code = -1
    /\ dec_log = << >>
    /\ dec_io = [fopen |-> 0, fread |-> 0, fwrite |-> 0, fgetc |-> 0]
    /\ enc_heap = {}
    /\ dec_heap = [entries |-> 0, seq_data |-> 0]
    /\ run = 1
    /\ first_artifact = << >>

\* the bit packer is not exercised on its own
PackIdle ==
    /\ pk_codes = << >>
    /\ pk_next = 1
    /\ pk_bw = bw_init
    /\ pk_bytes = << >>
    /\ pk_done = FALSE
    /\ pk_br = br_init
    /\ pk_pos = 0
    /\ pk_read = << >>

\* the earlier lzw_compress has not been called
ScanNotStarted ==
    /\ scan_pc = "start"
    /\ scan_in_pos = 0
    /\ scan_dictionary = Empty
    /\ scan_dict_size = 0
    /\ scan_curr_code = -1
    /\ scan_out = << >>

Init ==
    /\ \E b \in Builds : CODE_BITS = b[1] /\ MAX_DICT_SIZE = b[2]
    /\ input_file \in Inputs
    /\ NoCallYet
    /\ PackIdle
    /\ ht_calls = << >>
    /\ ScanNotStarted

Next ==
    \/ lzw_compress_open
    \/ lzw_compress_header
    \/ lzw_compress_seed
    \/ lzw_compress_prime
    \/ lzw_compress_step
    \/ lzw_compress_finish
    \/ tamper_truncate
    \/ tamper_header
    \/ tamper_overwrite
    \/ lzw_decompress_open
    \/ lzw_decompress_header
    \/ lzw_decompress_seed
    \/ lzw_decompress_first
    \/ lzw_decompress_step
    \/ lzw_decompress_finish

Spec == Init /\ [][Next]_vars

(***************************************************************************)
(* The bit packer and unpacker on their own (src/lzw.c:196-227,            *)
(* src/lzwDecompression.c:175-199): any sequence of at most PackLen codes  *)
(* below 2^CODE_BITS is written with bw_write_code, flushed with bw_flush  *)
(* and read back with br_read_code.                                        *)
(***************************************************************************)
\* all zeros, a single low bit, all ones, a single high bit, alternating bits
PackCodes(bits) ==
    {0, 1, Pow2(bits) - 1, Pow2(bits - 1), (Pow2(bits) - 1) \div 3}

codec_vars == << input_file, artifact, tampered, enc_vars, dec_vars, twice_vars >>

InitPack ==
    /\ \E b \in Builds :
          b[2] >= INIT_DICT_SIZE /\ CODE_BITS = b[1] /\ MAX_DICT_SIZE = b[2]
    /\ input_file = << >>
    /\ NoCallYet
    /\ pk_codes \in SeqsUpTo(PackCodes(CODE_BITS), PackLen)
    /\ pk_next = 1
    /\ pk_bw = bw_init
    /\ pk_bytes = << >>
    /\ pk_done = FALSE
    /\ pk_br = br_init
    /\ pk_pos = 0
    /\ pk_read = << >>
    /\ ht_calls = << >>
    /\ ScanNotStarted

\* bw_write_code on the next code
pack_write_code ==
    /\ ~pk_done
    /\ pk_next <= Len(pk_codes)
    /\ LET w == bw_write_code(pk_bw, pk_codes[pk_next], CODE_BITS)
       IN  /\ pk_bw' = w.bw
           /\ pk_bytes' = pk_bytes \o w.out
    /\ pk_next' = pk_next + 1
    /\ UNCHANGED << build_vars, codec_vars, hash_vars, scan_vars, pk_codes, pk_done, pk_br, pk_pos,
                    pk_read >>

\* bw_flush after the last code
pack_flush ==
    /\ ~pk_done
    /\ pk_next > Len(pk_codes)
    /\ LET f == bw_flush(pk_bw)
       IN  /\ pk_bw' = f.bw
           /\ pk_bytes' = pk_bytes \o f.out
    /\ pk_done' = TRUE
    /\ UNCHANGED << build_vars, codec_vars, hash_vars, scan_vars, pk_codes, pk_next, pk_br, pk_pos,
                    pk_read >>

\* a call of br_read_code that returns 1
unpack_read_code ==
    /\ pk_done
    /\ LET c == br_read_code(pk_br, pk_bytes, pk_pos, CODE_BITS)
       IN  /\ c.status = "code"
           /\ pk_br' = c.br
           /\ pk_pos' = c.pos
           /\ pk_read' = Append(pk_read, c.code)
    /\ UNCHANGED << build_vars, codec_vars, hash_vars, scan_vars, pk_codes, pk_next, pk_bw, pk_bytes,
                    pk_done >>

NextPack ==
    \/ pack_write_code
    \/ pack_flush
    \/ unpack_read_code

SpecPack == InitPack /\ [][NextPack]_vars

(***************************************************************************)
(* The hash table on its own (src/lzw.c:143-185), used as lzw_compress     *)
(* uses it: ht_init once, then ht_insert of a (prefix, append) pair only   *)
(* after ht_find missed on it (lines 301-325), with a new code each time   *)
(* and never more keys than half the capacity asked for.  The pairs are    *)
(* chosen so that some share a probe start in a table of HashCap slots.    *)
(***************************************************************************)
HashPrefixes == {0, 1, INIT_DICT_SIZE}
HashAppends == {0, 1, 8}

InitHash ==
    /\ CODE_BITS = SHIPPED_CODE_BITS /\ MAX_DICT_SIZE = SHIPPED_MAX_DICT_SIZE
    /\ input_file = << >>
    /\ NoCallYet
    /\ PackIdle
    /\ ht_calls = << >>
    /\ ScanNotStarted

hash_frame == << build_vars, input_file, artifact, tampered, enc_pc, in_pos,
                 dict, dict_size, curr_code, bw, enc_log, enc_io, enc_heap,
                 dec_vars, twice_vars, pack_vars, scan_vars >>

\* ht_init(HashCap)
ht_init_call ==
    /\ ht_cap = 0
    /\ LET t == ht_init(HashCap)
       IN  /\ ht' = t.ht
           /\ ht_cap' = t.ht_cap
           /\ ht_count' = t.ht_count
    /\ UNCHANGED << hash_frame, ht_calls >>

\* ht_find misses on a pair and ht_insert stores it under the next code
ht_insert_call ==
    /\ ht_cap # 0
    /\ 2 * ht_count < HashCap
    /\ \E prefix \in HashPrefixes, append \in HashAppends :
          LET key  == mk_key(prefix, append)
              code == INIT_DICT_SIZE + ht_count
          IN  /\ ht_find(ht, ht_cap, key) = -1
              /\ ht' = ht_insert(ht, ht_cap, key, code)
              /\ ht_count' = ht_count + 1
              /\ ht_calls' = Append(ht_calls,
                                    [prefix |-> prefix, append |-> append,
                                     code |-> code])
    /\ UNCHANGED << hash_frame, ht_cap >>

NextHash ==
    \/ ht_init_call
    \/ ht_insert_call

SpecHash == InitHash /\ [][NextHash]_vars

(***************************************************************************)
(* The earlier binary-safe lzw_compress (src/unnamed/part_004), whose      *)
(* dictionary holds the byte sequences themselves and is searched by       *)
(* find_concat_code.  It writes every code as a whole int.  It is run on   *)
(* the same input_file after the hash-indexed lzw_compress has ended,      *)
(* writing to a file of its own.                                           *)
(***************************************************************************)
\* mutant of find_concat_code: the appended byte is not compared
find_concat_code_anybyte(d, size, base_code, next_byte) ==
    LET need_len == Len(d[base_code]) + 1
        hits     == { i \in 0..(size - 1) :
                        /\ Len(d[i]) = need_len
                        /\ SubSeq(d[i], 1, need_len - 1) = d[base_code] }
    IN  IF hits = {} THEN -1
        ELSE CHOOSE i \in hits : \A j \in hits : i <= j

\* lines 14-26: the first entry equal to dict[base_code] + next_byte, or -1
find_concat_code(d, size, base_code, next_byte) ==
    LET need_len == Len(d[base_code]) + 1
        hits     == { i \in 0..(size - 1) :
                        /\ Len(d[i]) = need_len
                        /\ SubSeq(d[i], 1, need_len - 1) = d[base_code]
                        /\ d[i][need_len] = next_byte }
    IN  IF hits = {} THEN -1
        ELSE CHOOSE i \in hits : \A j \in hits : i <= j

scan_frame == << build_vars, codec_vars, pack_vars, hash_vars >>

\* lines 29-36
scan_compress_open ==
    /\ enc_pc \in {"returned", "exited"}
    /\ scan_pc = "start"
    /\ scan_pc' = "opened"
    /\ scan_out' = << >>
    /\ UNCHANGED << scan_frame, scan_in_pos, scan_dictionary, scan_dict_size,
                    scan_curr_code >>

\* lines 38-41: the header
scan_compress_header ==
    /\ scan_pc = "opened"
    /\ scan_pc' = "header"
    /\ scan_out' = Append(scan_out, INIT_DICT_SIZE)
    /\ UNCHANGED << scan_frame, scan_in_pos, scan_dictionary, scan_dict_size,
                    scan_curr_code >>

\* lines 43-68: check the configuration, seed the dictionary
scan_compress_seed ==
    /\ scan_pc = "header"
    /\ IF MAX_DICT_SIZE < INIT_DICT_SIZE
       THEN /\ scan_pc' = "exited"
            /\ UNCHANGED << scan_dictionary, scan_dict_size >>
       ELSE /\ scan_pc' = "seeded"
            /\ scan_dictionary' = [i \in 0..(INIT_DICT_SIZE - 1) |-> << i % 256 >>]
            /\ scan_dict_size' = INIT_DICT_SIZE
    /\ UNCHANGED << scan_frame, scan_in_pos, scan_curr_code, scan_out >>

\* lines 70-81: the first byte; an empty input ends the call here
scan_compress_prime ==
    /\ scan_pc = "seeded"
    /\ IF scan_in_pos = Len(input_file)
       THEN /\ scan_pc' = "returned"
            /\ UNCHANGED << scan_in_pos, scan_curr_code >>
       ELSE /\ scan_curr_code' = input_file[scan_in_pos + 1] % 256
            /\ scan_in_pos' = scan_in_pos + 1
            /\ scan_pc' = "loop"
    /\ UNCHANGED << scan_frame, scan_dictionary, scan_dict_size, scan_out >>

\* lines 84-125: one iteration of the main loop, on the next input byte k
scan_compress_step ==
    /\ scan_pc = "loop"
    /\ scan_in_pos < Len(input_file)
    /\ LET k     == input_file[scan_in_pos + 1] % 256
           found == find_concat_code(scan_dictionary, scan_dict_size,
                                     scan_curr_code, k)
       IN  IF found # -1
           THEN /\ scan_curr_code' = found
                /\ UNCHANGED << scan_out, scan_dictionary, scan_dict_size >>
           ELSE /\ scan_out' = Append(scan_out, scan_curr_code)
                /\ IF scan_dict_size < MAX_DICT_SIZE
                   THEN /\ scan_dictionary' =
                             [i \in 0..scan_dict_size |->
                                IF i = scan_dict_size
                                THEN Append(scan_dictionary[scan_curr_code], k)
                                ELSE scan_dictionary[i]]
                        /\ scan_dict_size' = scan_dict_size + 1
                   ELSE UNCHANGED << scan_dictionary, scan_dict_size >>
                /\ scan_curr_code' = k
    /\ scan_in_pos' = scan_in_pos + 1
    /\ UNCHANGED << scan_frame, scan_pc >>

\* lines 85-90 and 127-133: the final code, the cleanup, return
scan_compress_finish ==
    /\ scan_pc = "loop"
    /\ scan_in_pos = Len(input_file)
    /\ scan_out' = Append(scan_out, scan_curr_code)
    /\ scan_pc' = "returned"
    /\ UNCHANGED << scan_frame, scan_in_pos, scan_dictionary, scan_dict_size,
                    scan_curr_code >>

\* both encoders on the same input, one after the other
NextBoth ==
    \/ lzw_compress_open
    \/ lzw_compress_header
    \/ lzw_compress_seed
    \/ lzw_compress_prime
    \/ lzw_compress_step
    \/ lzw_compress_finish
    \/ scan_compress_open
    \/ scan_compress_header
    \/ scan_compress_seed
    \/ scan_compress_prime
    \/ scan_compress_step
    \/ scan_compress_finish

SpecBoth == Init /\ [][NextBoth]_vars

\* lzw_compress called twice in one process on the same input
NextTwice ==
    \/ lzw_compress_open
    \/ lzw_compress_header
    \/ lzw_compress_seed
    \/ lzw_compress_prime
    \/ lzw_compress_step
    \/ lzw_compress_finish
    \/ lzw_compress_again

SpecTwice == Init /\ [][NextTwice]_vars

(***************************************************************************)
(* Vocabulary of the properties.                                           *)
(***************************************************************************)
ValidBuild == MAX_DICT_SIZE >= INIT_DICT_SIZE
ShippedBuild == CODE_BITS = SHIPPED_CODE_BITS /\ MAX_DICT_SIZE = SHIPPED_MAX_DICT_SIZE
DecDone == dec_pc \in {"returned", "exited", "undefined"}
\* lzw_decompress has run to its end on the artifact exactly as
\* lzw_compress wrote it
CleanRunDone == enc_pc = "returned" /\ tampered = "none" /\ DecDone
EncCodes == [i \in 1..Len(enc_log) |-> enc_log[i].code]
DecCodes == [i \in 1..Len(dec_log) |-> dec_log[i].code]

\* bit j (from 0) of the byte stream data, least significant bit first
BitAt(data, j) == (data[(j \div 8) + 1] \div Pow2(j % 8)) % 2
\* the payload of the artifact: the bytes after the 4-byte header
Payload == SubSeq(artifact, 5, Len(artifact))
\* the bits of the payload that follow its last complete code
ResidualBitPositions ==
    LET total == 8 * Len(Payload)
    IN  (total - (total % CODE_BITS)) .. (total - 1)
ResidualNonZero == \E j \in ResidualBitPositions : BitAt(Payload, j) = 1

\* the byte sequence the encoder's entry code denotes: its (prefix, append)
\* chain, expanded
RECURSIVE Expand(_, _)
Expand(d, code) ==
    IF d[code].prefix = -1
    THEN << d[code].append >>
    ELSE Append(Expand(d, d[code].prefix), d[code].append)

\* the bytes lzw_decompress wrote before and for the i-th code it read
RECURSIVE WroteIn(_, _)
WroteIn(lo, hi) ==
    IF lo > hi THEN 0
    ELSE IF lo = hi THEN dec_log[lo].wrote
    ELSE LET mid == (lo + hi) \div 2
         IN  WroteIn(lo, mid) + WroteIn(mid + 1, hi)

WroteBefore(i) == WroteIn(1, i - 1)
DecWritten(i) ==
    SubSeq(output_file, WroteBefore(i) + 1, WroteBefore(i) + dec_log[i].wrote)

(***************************************************************************)
(* C1.  Round trip: for every input x, lzw_decompress on the artifact      *)
(* written by lzw_compress(x) completes successfully and its output        *)
(* equals x.                                                               *)
(* Stated for the shipped configuration: once lzw_decompress has ended on  *)
(* an undamaged artifact, it has returned (not exited) and                 *)
(* output_file = input_file.                                               *)
(***************************************************************************)
C1_RoundTrip ==
    (ShippedBuild /\ CleanRunDone)
        => (dec_pc = "returned" /\ output_file = input_file)

(***************************************************************************)
(* C2.  End-of-stream padding: when the source is exhausted while fewer    *)
(* than CODE_BITS bits are buffered and all of them are zero, br_read_code *)
(* signals "no more codes" and the decode finishes successfully.           *)
(* Stated for the shipped configuration: lzw_decompress never exits with   *)
(* "Unexpected end of compressed data" while the bits left in the reader's *)
(* buffer are all zero.                                                    *)
(***************************************************************************)
C2_ZeroResidualIsEndOfStream ==
    ShippedBuild
        => ~(dec_pc = "exited" /\ dec_err = "unexpected_end" /\ br.buffer = 0)

(***************************************************************************)
(* C3.  KwKwK scenario, as claimed: compressing "ABABAB" emits, after the  *)
(* codes for 'A' and 'B', some code equal to the decoder's dict_size at    *)
(* the moment the decoder reads it, and decoding reproduces "ABABAB".      *)
(***************************************************************************)
C3_ABABAB_TakesKwKwK ==
    (ShippedBuild /\ CleanRunDone /\ input_file = ABABAB)
        => /\ \E i \in 3..Len(dec_log) :
                 dec_log[i].code = dec_log[i].at /\ dec_log[i].kwkwk
           /\ dec_pc = "returned"
           /\ output_file = ABABAB

(***************************************************************************)
(* C3 as amended.  "ABABAB" is encoded as 65, 66, 256, 256; every code is  *)
(* below the decoder's dict_size when it is read, so the KwKwK branch is   *)
(* not taken, and the decoder writes exactly "ABABAB".  The 7-byte input   *)
(* "ABABABA" is the one encoded with a not-yet-defined code: 65, 66, 256,  *)
(* 258, where 258 is the decoder's dict_size when it reads it; the decoder *)
(* takes the KwKwK branch and writes exactly "ABABABA".  In the shipped    *)
(* configuration (four 14-bit codes, no padding) both decodes return       *)
(* successfully.                                                           *)
(***************************************************************************)
C3_KwKwKScenario ==
    (ValidBuild /\ CleanRunDone)
        => /\ input_file = ABABAB
                => /\ EncCodes = << 65, 66, 256, 256 >>
                   /\ DecCodes = EncCodes
                   /\ \A i \in DOMAIN dec_log :
                         dec_log[i].code < dec_log[i].at /\ ~dec_log[i].kwkwk
                   /\ output_file = ABABAB
                   /\ ShippedBuild => dec_pc = "returned"
           /\ input_file = ABABABA
                => /\ EncCodes = << 65, 66, 256, 258 >>
                   /\ DecCodes = EncCodes
                   /\ dec_log[4].at = 258 /\ dec_log[4].kwkwk /\ dec_log[4].accepted
                   /\ output_file = ABABABA
                   /\ ShippedBuild => dec_pc = "returned"

C3_Witness ==
    /\ ShippedBuild /\ CleanRunDone /\ input_file = ABABAB
    /\ dec_pc = "returned" /\ Len(dec_log) = 4

(***************************************************************************)
(* C4.  Dictionary-growth parity, as claimed: the dict_size the encoder    *)
(* has after each emitted code (at the end of the step that emitted it)    *)
(* equals the dict_size the decoder has after the code with the same       *)
(* index.                                                                  *)
(***************************************************************************)
C4_SizesAfterEachCodeEqual ==
    (ValidBuild /\ tampered = "none")
        => \A i \in DOMAIN dec_log :
              i \in DOMAIN enc_log /\ dec_log[i].after = enc_log[i].after

(***************************************************************************)
(* C4 as amended.  The decoder's dictionary lags the encoder's by one      *)
(* entry: the dict_size the decoder has after consuming the i-th code      *)
(* equals the dict_size the encoder had at the moment it emitted the i-th  *)
(* code, before it added the entry that follows the emission; the decoder  *)
(* consumes exactly the codes the encoder emitted.                         *)
(***************************************************************************)
C4_GrowthParity ==
    (ValidBuild /\ tampered = "none")
        => /\ \A i \in DOMAIN dec_log :
                 /\ i \in DOMAIN enc_log
                 /\ dec_log[i].code = enc_log[i].code
                 /\ dec_log[i].after = enc_log[i].at
                 /\ dec_log[i].accepted
           /\ dec_log # << >> => dec_dict_size = enc_log[Len(dec_log)].at
           /\ (enc_pc = "returned" /\ DecDone) => Len(dec_log) = Len(enc_log)

C4_Witness ==
    /\ ValidBuild /\ CleanRunDone
    /\ Len(dec_log) >= 3
    /\ dec_log[3].after = INIT_DICT_SIZE + 2
    /\ enc_log[3].after = INIT_DICT_SIZE + 3

(***************************************************************************)
(* C5.  Dictionary cap: in encoder and decoder dict_size never exceeds     *)
(* MAX_DICT_SIZE; once it equals MAX_DICT_SIZE no entry is created and no  *)
(* hash insert happens for the rest of the call, and every code emitted    *)
(* or accepted from then on is below MAX_DICT_SIZE.                        *)
(***************************************************************************)
C5_Step ==
    /\ dict_size' <= MAX_DICT_SIZE
    /\ dec_dict_size' <= MAX_DICT_SIZE
    /\ (enc_pc = "loop" /\ dict_size = MAX_DICT_SIZE)
          => /\ dict' = dict /\ dict_size' = dict_size
             /\ ht' = ht /\ ht_count' = ht_count
             /\ Len(enc_log') > Len(enc_log)
                   => enc_log'[Len(enc_log')].code < MAX_DICT_SIZE
    /\ (dec_pc = "loop" /\ dec_dict_size = MAX_DICT_SIZE)
          => /\ dictionary' = dictionary /\ dec_dict_size' = dec_dict_size
             /\ (Len(dec_log') > Len(dec_log) /\ dec_log'[Len(dec_log')].accepted)
                   => dec_log'[Len(dec_log')].code < MAX_DICT_SIZE

\* C5: every step of either call keeps dict_size within MAX_DICT_SIZE and,
\* once the dictionary is full, adds no entry and emits or accepts only
\* codes below MAX_DICT_SIZE
C5_DictionaryCap == [][C5_Step]_vars

C5_Witness ==
    /\ dict_size = MAX_DICT_SIZE /\ dec_dict_size = MAX_DICT_SIZE
    /\ \E i \in DOMAIN enc_log :
          enc_log[i].at = MAX_DICT_SIZE /\ enc_log[i].code >= INIT_DICT_SIZE
    /\ \E i \in DOMAIN dec_log :
          /\ dec_log[i].at = MAX_DICT_SIZE /\ dec_log[i].accepted
          /\ dec_log[i].code >= INIT_DICT_SIZE

(***************************************************************************)
(* C6.  Empty input: lzw_compress on an empty input writes exactly the     *)
(* 4-byte header and no code bytes; lzw_decompress on that artifact        *)
(* succeeds and writes zero output bytes.                                  *)
(***************************************************************************)
C6_EmptyInput ==
    (ValidBuild /\ input_file = << >> /\ tampered = "none")
        => /\ enc_pc = "returned"
                => /\ artifact = Int32Bytes(INIT_DICT_SIZE)
                   /\ enc_log = << >>
                   /\ enc_io.fwrite = 4
           /\ DecDone
                => /\ dec_pc = "returned"
                   /\ output_file = << >>
                   /\ dec_log = << >>
                   /\ dec_io.fwrite = 0

C6_Witness ==
    /\ ValidBuild /\ input_file = << >> /\ tampered = "none"
    /\ enc_pc = "returned" /\ dec_pc = "returned"

(***************************************************************************)
(* C7.  Out-of-range code rejection: if the first code read is >=          *)
(* dict_size, or a later code is > dict_size, the decode ends in failure   *)
(* at that code and writes no byte for that code or any later one; the     *)
(* code is never accepted.                                                 *)
(***************************************************************************)
\* the n-th code the decoder read, e, is out of range
OutOfRange(e, n) == IF n = 1 THEN e.code >= e.at ELSE e.code > e.at

C7_Step ==
    LET n == Len(dec_log')
    IN  /\ (n > Len(dec_log) /\ OutOfRange(dec_log'[n], n))
              => /\ dec_pc' = "exited"
                 /\ dec_err' \in {"first_code", "invalid_code"}
                 /\ ~dec_log'[n].accepted
                 /\ output_file' = output_file
                 /\ dictionary' = dictionary
                 /\ dec_dict_size' = dec_dict_size
        /\ dec_pc = "exited"
              => /\ dec_pc' = "exited"
                 /\ output_file' = output_file
                 /\ dec_log' = dec_log

\* C7: a step that reads an out-of-range code exits and writes nothing, and
\* nothing is written after an exit
C7_OutOfRangeRejected == [][C7_Step]_vars

C7_Witness ==
    /\ dec_pc = "exited" /\ dec_err = "invalid_code"
    /\ Len(dec_log) >= 2
    /\ dec_log[Len(dec_log)].code > dec_log[Len(dec_log)].at
    /\ output_file # << >>

(***************************************************************************)
(* C8.  Truncation: if the payload of a valid artifact is truncated so     *)
(* that the bits after its last complete code are not all zero,            *)
(* lzw_decompress ends in failure; it never completes successfully.        *)
(***************************************************************************)
C8_TruncationRejected ==
    (tampered = "truncate" /\ DecDone /\ ResidualNonZero)
        => dec_pc = "exited"

C8_Witness ==
    /\ tampered = "truncate" /\ ResidualNonZero
    /\ dec_pc = "exited" /\ dec_err = "unexpected_end"
    /\ br.buffer # 0

(***************************************************************************)
(* C9.  Header validation: lzw_compress always writes INIT_DICT_SIZE as    *)
(* the first 4 bytes of the artifact; lzw_decompress on an artifact whose  *)
(* leading int32 differs from it fails before reading any code and before  *)
(* writing any output byte.                                                *)
(***************************************************************************)
C9_HeaderValidation ==
    /\ (enc_pc \notin {"start", "opened"} /\ tampered = "none")
          => /\ Len(artifact) >= 4
             /\ SubSeq(artifact, 1, 4) = Int32Bytes(INIT_DICT_SIZE)
    /\ ( /\ dec_pc \notin {"start", "opened"}
         /\ Len(artifact) >= 4
         /\ BytesInt32(SubSeq(artifact, 1, 4)) # INIT_DICT_SIZE )
          => /\ dec_pc = "exited" /\ dec_err = "header_value"
             /\ rd_pos = 4
             /\ dec_log = << >>
             /\ dec_io.fgetc = 0
             /\ output_file = << >>
             /\ dec_io.fwrite = 0

C9_Witness ==
    /\ tampered = "header" /\ Len(artifact) > 4
    /\ dec_pc = "exited" /\ dec_err = "header_value"

(***************************************************************************)
(* C10.  Configuration failure ordering: when MAX_DICT_SIZE <              *)
(* INIT_DICT_SIZE, lzw_compress and lzw_decompress fail before any I/O:    *)
(* before any file is opened and before any byte, the header included, is  *)
(* read or written.                                                        *)
(***************************************************************************)
C10_ConfigFailsBeforeIO ==
    ~ValidBuild
        => /\ enc_pc = "exited"
                => /\ enc_io = [fopen |-> 0, fwrite |-> 0, fgetc |-> 0]
                   /\ artifact = << >>
           /\ dec_pc = "exited"
                => dec_io = [fopen |-> 0, fread |-> 0, fwrite |-> 0, fgetc |-> 0]

(***************************************************************************)
(* C11.  Determinism: a second call of lzw_compress on the same input      *)
(* under the same configuration, made in the same process and so starting  *)
(* from the ht, ht_cap and ht_count the first call left, writes an         *)
(* artifact bit-identical to the first one.                                *)
(***************************************************************************)
C11_Determinism ==
    (run = 2 /\ enc_pc \in {"returned", "exited", "undefined"})
        => /\ enc_pc = "returned"
           /\ artifact = first_artifact

C11_Witness ==
    /\ run = 2 /\ enc_pc = "returned"
    /\ input_file = ABABABA
    /\ ht_count = 3
    /\ artifact = first_artifact /\ Len(artifact) = 4 + 7

(***************************************************************************)
(* C12.  Emitted-code validity: every code lzw_compress passes to          *)
(* bw_write_code, in the main loop and as the final code, satisfies        *)
(* 0 <= code < dict_size at the moment of emission; hence it is below      *)
(* 2^CODE_BITS and the CODE_BITS mask of bw_write_code leaves it as it is. *)
(***************************************************************************)
C12_EmittedCodesValid ==
    \A i \in DOMAIN enc_log :
        /\ 0 <= enc_log[i].code
        /\ enc_log[i].code < enc_log[i].at
        /\ enc_log[i].code < Pow2(CODE_BITS)
        /\ enc_log[i].code % Pow2(CODE_BITS) = enc_log[i].code

\* the final code is the entry created last, and codes were emitted in the
\* main loop
C12_Witness ==
    /\ enc_pc = "returned"
    /\ Len(enc_log) >= 4
    /\ enc_log[Len(enc_log)].code = enc_log[Len(enc_log)].at - 1
    /\ enc_log[Len(enc_log)].code >= INIT_DICT_SIZE

(***************************************************************************)
(* C13.  Resource release: on every exit path of lzw_compress and          *)
(* lzw_decompress, successful return or failure, every buffer the call     *)
(* allocated (the encoder's dict and ht, the data of every decoder entry,  *)
(* every temporary sequence of the KwKwK branch) has been released.        *)
(* Stated for the successful returns of the shipped configuration on an    *)
(* undamaged artifact (the claim covers the failure exits as well): once   *)
(* a call has returned it holds no buffer.                                 *)
(***************************************************************************)
C13_ReleasedAtReturn ==
    (ShippedBuild /\ tampered = "none")
        => /\ enc_pc = "returned" => enc_heap = {}
           /\ dec_pc = "returned"
                 => dec_heap = [entries |-> 0, seq_data |-> 0]

(***************************************************************************)
(* C14.  Bit-packer layout: for every code sequence c_0 .. c_{n-1} with    *)
(* each c_i < 2^CODE_BITS, the bytes produced by n calls of bw_write_code  *)
(* followed by bw_flush are exactly the ceil(n * CODE_BITS / 8) low-order  *)
(* bytes, least significant first, of the integer sum of                   *)
(* c_i * 2^(i * CODE_BITS); the unused high bits of the last byte are      *)
(* zero, and after every bw_write_code fewer than 8 bits remain buffered.  *)
(* Bit p of that integer is bit (p % CODE_BITS) of c_(p \div CODE_BITS),   *)
(* and 0 from bit n * CODE_BITS on.                                        *)
(***************************************************************************)
PackedBit(p) ==
    IF p < Len(pk_codes) * CODE_BITS
    THEN (pk_codes[(p \div CODE_BITS) + 1] \div Pow2(p % CODE_BITS)) % 2
    ELSE 0
\* byte j (from 0) of the integer
PackedByte(j) ==
    PackedBit(8 * j) + 2 * PackedBit(8 * j + 1) + 4 * PackedBit(8 * j + 2)
    + 8 * PackedBit(8 * j + 3) + 16 * PackedBit(8 * j + 4)
    + 32 * PackedBit(8 * j + 5) + 64 * PackedBit(8 * j + 6)
    + 128 * PackedBit(8 * j + 7)
CeilDiv(a, b) == (a + b - 1) \div b

C14_PackerLayout ==
    /\ pk_bw.bit_count < 8
    /\ pk_bw.bit_count = IF pk_done THEN 0
                         ELSE ((pk_next - 1) * CODE_BITS) % 8
    /\ pk_bytes =
          [j \in 1..(IF pk_done
                     THEN CeilDiv(Len(pk_codes) * CODE_BITS, 8)
                     ELSE ((pk_next - 1) * CODE_BITS) \div 8)
              |-> PackedByte(j - 1)]

C14_Witness ==
    /\ pk_done
    /\ Len(pk_codes) = 3
    /\ pk_codes[2] = Pow2(CODE_BITS) - 1
    /\ (Len(pk_codes) * CODE_BITS) % 8 # 0
    /\ Len(pk_bytes) = CeilDiv(Len(pk_codes) * CODE_BITS, 8)

(***************************************************************************)
(* C15.  Bit-unpacker inverse: for every code sequence c_0 .. c_{n-1}      *)
(* packed by bw_write_code and bw_flush, the first n successful calls of   *)
(* br_read_code on the resulting bytes return c_0, c_1, ..., c_{n-1} in    *)
(* that order, each consuming exactly CODE_BITS bits; while fewer than n   *)
(* codes have been read, the next call succeeds.                           *)
(***************************************************************************)
C15_UnpackerInverse ==
    /\ Len(pk_read) <= Len(pk_codes)
    /\ pk_read = SubSeq(pk_codes, 1, Len(pk_read))
    /\ 8 * pk_pos - pk_br.bit_count = Len(pk_read) * CODE_BITS
    /\ (pk_done /\ Len(pk_read) < Len(pk_codes))
          => br_read_code(pk_br, pk_bytes, pk_pos, CODE_BITS).status = "code"

C15_Witness ==
    /\ pk_done
    /\ Len(pk_codes) = 3
    /\ pk_read = pk_codes
    /\ pk_codes[1] = Pow2(CODE_BITS) - 1
    /\ pk_codes[2] = (Pow2(CODE_BITS) - 1) \div 3
    /\ pk_br.bit_count > 0

(***************************************************************************)
(* C16.  KwKwK reconstruction: for any code stream produced by the         *)
(* encoder, whenever the decoder reads a code curr equal to its current    *)
(* dict_size, the sequence it emits, sequence(prev) followed by the first  *)
(* byte of sequence(prev), equals the byte sequence denoted by the         *)
(* encoder's dictionary entry numbered curr, and the entry the decoder     *)
(* then stores at index curr is that same sequence.                        *)
(***************************************************************************)
C16_KwKwKReconstruction ==
    (ValidBuild /\ tampered = "none")
        => \A i \in DOMAIN dec_log :
              dec_log[i].code = dec_log[i].at
                 => LET curr == dec_log[i].code
                        prev == Expand(dict, dec_log[i - 1].code)
                    IN  /\ i > 1
                        /\ dec_log[i].kwkwk /\ dec_log[i].accepted
                        /\ curr \in DOMAIN dict
                        /\ DecWritten(i) = Append(prev, prev[1])
                        /\ DecWritten(i) = Expand(dict, curr)
                        /\ curr \in DOMAIN dictionary
                        /\ dictionary[curr] = Expand(dict, curr)

C16_Witness ==
    /\ ValidBuild /\ tampered = "none" /\ dec_pc = "returned"
    /\ \E i \in DOMAIN dec_log :
          /\ dec_log[i].code = dec_log[i].at
          /\ dec_log[i].wrote >= 3
          /\ DecWritten(i)[1] # DecWritten(i)[2]

(***************************************************************************)
(* C17.  Lock-step dictionary contents: for any input, every entry i the   *)
(* decoder holds (seed or created) denotes exactly the byte sequence       *)
(* obtained by expanding the encoder's entry i through its (prefix,        *)
(* append) chain; the decoder never holds an entry whose bytes differ from *)
(* the encoder's entry with the same code.                                 *)
(***************************************************************************)
C17_LockStepContents ==
    (ValidBuild /\ tampered = "none")
        => /\ DOMAIN dictionary = 0..(dec_dict_size - 1)
           /\ \A i \in DOMAIN dictionary :
                 /\ i \in DOMAIN dict
                 /\ dictionary[i] = Expand(dict, i)
                 /\ Len(dictionary[i]) = dict[i].len

C17_Witness ==
    /\ ValidBuild /\ tampered = "none" /\ DecDone
    /\ dec_dict_size >= INIT_DICT_SIZE + 3
    /\ dict_size = dec_dict_size
    /\ Len(dictionary[dec_dict_size - 1]) >= 3

(***************************************************************************)
(* C18.  Hash-key uniqueness: during any run of the encoder, ht_insert is  *)
(* never called with a (prefix, append) key that is already stored in the  *)
(* table, so each pair is inserted at most once, each code is defined at   *)
(* most once, and ht_count equals dict_size - INIT_DICT_SIZE after every   *)
(* step.                                                                   *)
(* As a state property: the occupied slots hold pairwise different keys    *)
(* and pairwise different codes, one slot for each created entry with the  *)
(* key of its (prefix, append) pair, and the created entries have pairwise *)
(* different pairs.                                                        *)
(***************************************************************************)
C18_HashKeyUniqueness ==
    /\ Cardinality({ ht[i].key : i \in DOMAIN ht }) = Cardinality(DOMAIN ht)
    /\ Cardinality({ ht[i].code : i \in DOMAIN ht }) = Cardinality(DOMAIN ht)
    /\ enc_pc \in {"seeded", "loop", "returned"}
          => /\ ht_count = dict_size - INIT_DICT_SIZE
             /\ ht_count = Cardinality(DOMAIN ht)
             /\ Cardinality({ << dict[c].prefix, dict[c].append >> :
                                c \in INIT_DICT_SIZE..(dict_size - 1) })
                   = dict_size - INIT_DICT_SIZE
             /\ \A i \in DOMAIN ht :
                   /\ ht[i].code \in INIT_DICT_SIZE..(dict_size - 1)
                   /\ ht[i].key = mk_key(dict[ht[i].code].prefix,
                                          dict[ht[i].code].append)

\* a second call has inserted several keys, one of which sits away from its
\* probe start
C18_Witness ==
    /\ run = 2 /\ enc_pc = "returned"
    /\ ht_count >= 3
    /\ \E i \in DOMAIN ht : ht_probe_start(ht[i].key, ht_cap) # i

(***************************************************************************)
(* C19.  Hash lookup correctness: after any sequence of ht_insert calls    *)
(* made as the encoder makes them, ht_find(mk_key(prefix, append)) returns *)
(* code c if and only if (prefix, append) was inserted with code c, and    *)
(* returns -1 for every pair never inserted; ht_insert writes only into a  *)
(* previously empty slot and leaves every other slot unchanged.            *)
(***************************************************************************)
\* the codes the pair was inserted with
InsertedCodes(calls, prefix, append) ==
    { calls[k].code : k \in { n \in DOMAIN calls :
                                calls[n].prefix = prefix /\ calls[n].append = append } }

LookupCorrect(h, cap, calls) ==
    \A prefix \in HashPrefixes, append \in HashAppends :
        LET found == ht_find(h, cap, mk_key(prefix, append))
            codes == InsertedCodes(calls, prefix, append)
        IN  IF codes = {} THEN found = -1 ELSE codes = {found}

C19_Step ==
    /\ ht_cap # 0 => LookupCorrect(ht, ht_cap, ht_calls)
    /\ LookupCorrect(ht', ht_cap', ht_calls')
    /\ ht_calls' # ht_calls
          => LET call == ht_calls'[Len(ht_calls')]
             IN  \E i \in DOMAIN ht' :
                    /\ i \notin DOMAIN ht
                    /\ DOMAIN ht' = DOMAIN ht \cup {i}
                    /\ ht'[i] = [key  |-> mk_key(call.prefix, call.append),
                                  code |-> call.code]
                    /\ \A j \in DOMAIN ht : ht'[j] = ht[j]

\* C19: every step leaves a table in which each inserted pair is found with
\* its code and every other pair misses, and an insert fills one empty slot
\* and changes no other
C19_HashLookupCorrect == [][C19_Step]_vars

\* the table holds as many keys as the encoder's load allows, one of them
\* away from its probe start, and a pair never inserted whose probe starts
\* on an occupied slot
C19_Witness ==
    /\ 2 * ht_count >= HashCap
    /\ Len(ht_calls) = ht_count
    /\ \E i \in DOMAIN ht : ht_probe_start(ht[i].key, ht_cap) # i
    /\ \E prefix \in HashPrefixes, append \in HashAppends :
          /\ InsertedCodes(ht_calls, prefix, append) = {}
          /\ ht_probe_start(mk_key(prefix, append), ht_cap) \in DOMAIN ht

(***************************************************************************)
(* C20.  Drop-in equivalence of encoder versions: for every input, the     *)
(* sequence of codes emitted by the hash-indexed encoder equals the        *)
(* sequence of codes emitted by the earlier binary-safe linear-scan        *)
(* encoder under the same INIT_DICT_SIZE and MAX_DICT_SIZE, and both       *)
(* create the same dictionary entries in the same order.                   *)
(***************************************************************************)
\* the codes the earlier encoder has written after its header
ScanCodes == IF scan_out = << >> THEN << >> ELSE Tail(scan_out)

C20_EncodersEquivalent ==
    /\ Len(ScanCodes) <= Len(EncCodes)
    /\ ScanCodes = SubSeq(EncCodes, 1, Len(ScanCodes))
    /\ scan_dict_size <= dict_size
    /\ \A i \in 0..(scan_dict_size - 1) : scan_dictionary[i] = Expand(dict, i)
    /\ scan_pc \in {"returned", "exited"}
          => /\ scan_pc = enc_pc
             /\ scan_out[1] = BytesInt32(SubSeq(artifact, 1, 4))
             /\ ScanCodes = EncCodes
             /\ scan_dict_size = dict_size

C20_Witness ==
    /\ scan_pc = "returned"
    /\ scan_dict_size = MAX_DICT_SIZE
    /\ Len(ScanCodes) > MAX_DICT_SIZE - INIT_DICT_SIZE
    /\ \E i \in DOMAIN ScanCodes : ScanCodes[i] >= INIT_DICT_SIZE

(***************************************************************************)
(* C21.  Hash load factor and probe termination: the hash capacity is a    *)
(* power of two >= 2 * MAX_DICT_SIZE and the number of occupied slots      *)
(* never exceeds half the capacity, so the table always contains an empty  *)
(* slot and the unbounded linear-probe loops in ht_find and ht_insert      *)
(* terminate on every call the encoder makes.                              *)
(***************************************************************************)
RECURSIVE IsPow2(_)
IsPow2(x) == x = 1 \/ (x > 1 /\ x % 2 = 0 /\ IsPow2(x \div 2))

\* the slots the loop of ht_find reads from slot i on, n counting the one at
\* i; a result above cap is a loop that has gone round the whole table
RECURSIVE FindSteps(_, _, _, _, _)
FindSteps(h, cap, key, i, n) ==
    IF n > cap THEN n
    ELSE IF i \notin DOMAIN h \/ h[i].key = key THEN n
    ELSE FindSteps(h, cap, key, (i + 1) % cap, n + 1)

\* the same for the loop of ht_insert, which stops at an empty slot only
RECURSIVE InsertSteps(_, _, _, _)
InsertSteps(h, cap, i, n) ==
    IF n > cap THEN n
    ELSE IF i \notin DOMAIN h THEN n
    ELSE InsertSteps(h, cap, (i + 1) % cap, n + 1)

\* the key of the lookup the main loop is about to make
PendingLookup == enc_pc = "loop" /\ in_pos < Len(input_file)
PendingKey == mk_key(curr_code, input_file[in_pos + 1] % 256)

\* C21: once ht_init has run in a call, the capacity is a power of two of at
\* least twice MAX_DICT_SIZE, at most half of the slots are occupied, a slot
\* is empty, and the lookup about to be made, with the insert that follows
\* its miss, ends within one round of the table
C21_LoadFactorAndTermination ==
    enc_pc \in {"seeded", "loop"}
       => /\ IsPow2(ht_cap)
          /\ ht_cap >= 2 * MAX_DICT_SIZE
          /\ DOMAIN ht \subseteq 0..(ht_cap - 1)
          /\ Cardinality(DOMAIN ht) = ht_count
          /\ 2 * Cardinality(DOMAIN ht) <= ht_cap
          /\ \E i \in 0..(ht_cap - 1) : i \notin DOMAIN ht
          /\ PendingLookup
                => LET start == ht_probe_start(PendingKey, ht_cap)
                   IN  /\ FindSteps(ht, ht_cap, PendingKey, start, 1) <= ht_cap
                       /\ ht_find(ht, ht_cap, PendingKey) = -1
                             => InsertSteps(ht, ht_cap, start, 1) <= ht_cap

\* in a second call the dictionary is full, so the table holds as many keys
\* as it ever will, and a lookup is about to be made
C21_Witness ==
    /\ run = 2
    /\ PendingLookup
    /\ dict_size = MAX_DICT_SIZE
    /\ ht_count = MAX_DICT_SIZE - INIT_DICT_SIZE
    /\ ht_count > 0

(***************************************************************************)
(* C22.  Dictionary index bounds: in every reachable state of the decoder, *)
(* for valid and for corrupted code streams alike, each dictionary access  *)
(* uses an index in [0, dict_size): in particular prev_code < dict_size    *)
(* holds whenever dictionary[prev_code] is read to build a new entry or a  *)
(* KwKwK sequence; likewise every dict[] index the encoder reads           *)
(* (curr_code and its prefix chain) is in [0, dict_size).                  *)
(***************************************************************************)
\* the indices of dictionary[] that the decoder's next step reads: the first
\* code after its check (lines 276-285), a known code (lines 299-302 and
\* 355-357), prev_code for a KwKwK sequence after its check (lines 303-322)
\* and prev_code for the new entry when there is room (lines 354-365)
DecReads ==
    LET c == br_read_code(br, artifact, rd_pos, CODE_BITS)
    IN  IF dec_pc = "seeded"
        THEN IF c.status = "code" /\ ~first_code_bad(c.code, dec_dict_size)
             THEN {c.code} ELSE {}
        ELSE IF dec_pc = "loop" /\ c.status = "code"
        THEN LET grow == IF dec_room(dec_dict_size, MAX_DICT_SIZE)
                         THEN {prev_code} ELSE {}
             IN  IF is_known(c.code, dec_dict_size) THEN {c.code} \cup grow
                 ELSE IF ~is_kwkwk(c.code, dec_dict_size) THEN {}
                 ELSE IF kwkwk_prev_bad(prev_code, dec_dict_size) THEN {}
                 ELSE {prev_code} \cup grow
        ELSE {}

\* the indices of dict[] on the prefix chain of a code; a prefix is an older
\* entry, and the walk stops where it is not
RECURSIVE PrefixChain(_, _)
PrefixChain(d, code) ==
    IF code \notin DOMAIN d THEN {code}
    ELSE IF d[code].prefix = -1 THEN {code}
    ELSE IF d[code].prefix >= code THEN {code, d[code].prefix}
    ELSE {code} \cup PrefixChain(d, d[code].prefix)

\* C22: no call reads outside the entries that exist; while the decoder
\* decodes, its entries are 0..dict_size-1 within the array and the indices
\* its next step reads are among them; while the encoder is in its main loop
\* the same holds of its entries and of curr_code with its prefix chain
C22_IndexBounds ==
    /\ dec_pc # "undefined"
    /\ enc_pc # "undefined"
    /\ dec_pc \in {"seeded", "loop"}
          => /\ DOMAIN dictionary = 0..(dec_dict_size - 1)
             /\ dec_dict_size <= MAX_DICT_SIZE
             /\ DecReads \subseteq 0..(dec_dict_size - 1)
    /\ enc_pc = "loop"
          => /\ DOMAIN dict = 0..(dict_size - 1)
             /\ dict_size <= MAX_DICT_SIZE
             /\ PrefixChain(dict, curr_code) \subseteq 0..(dict_size - 1)

\* in a stream with an overwritten byte the next code is the one after the
\* last entry, so dictionary[prev_code] is about to be read for the KwKwK
\* sequence and for the new entry
C22_Witness ==
    /\ tampered = "overwrite"
    /\ dec_pc = "loop"
    /\ LET c == br_read_code(br, artifact, rd_pos, CODE_BITS)
       IN  c.status = "code" /\ c.code = dec_dict_size
    /\ dec_room(dec_dict_size, MAX_DICT_SIZE)
    /\ prev_code \in DecReads

=============================================================================
